---- MODULE Spec2Model ----
(***************************************************************************)
(* Referential-integrity model of the YoutubeClone backend: the document   *)
(* store (users, channels, videos, comments) and the request handlers of   *)
(* backend/controllers/accountController.js and channelController.js that  *)
(* create, link and cascade-delete those documents.                        *)
(*                                                                         *)
(* A document keeps the fields that hold references or decide a branch;    *)
(* titles, handles, avatars, banners and password hashes are left out.     *)
(*                                                                         *)
(* Each handler is an operator from a store (and the request's inputs) to  *)
(* the store it leaves behind and the response it sends.  In Spec the      *)
(* requests run one at a time: one action is one whole request.            *)
(***************************************************************************)
EXTENDS Integers, Sequences, FiniteSets, TLC

\* ------------------------------------------------------------------ bounds
\* How many _ids each collection ever hands out (ObjectIds are never reused).
MaxUsers == 2
MaxChannels == 2
MaxVideos == 1
MaxComments == 1
\* Distinct non-empty values a request may carry as name / as email.
MaxNames == 2
\* Requests that may be started in the specifications that run handlers one
\* store operation at a time.
MaxReqs == 2
\* Thunks of the frontend channel slice that may be in flight together, and the
\* distinct non-null payloads their actions may carry.
MaxThunks == 2
MaxPayloads == 2

UserIds == 1..MaxUsers
ChannelIds == 1..MaxChannels
VideoIds == 1..MaxVideos
CommentIds == 1..MaxComments
\* 0 stands for a missing (falsy) request field.
Fields == 0..MaxNames

\* user.channelId = null (channelController.js line 199); ids start at 1.
null == 0

\* ------------------------------------------------------------------- state
VARIABLES
    newUser,   \* users collection:    _id -> [name, email, hasChannel, channelId, subscriptions, likes]
    Channel,   \* channels collection: _id -> [owner, subscribers]
    Video,     \* videos collection:   _id -> [owner, channelId, likes]
    Comment,   \* comments collection: _id -> [userId, videoId]
    nextId,    \* the next fresh _id of each collection
    response,  \* the response of the last completed request
    reqs,      \* handlers run one store operation at a time: slot -> position and locals
    http,      \* the request travelling through the video router's stack
    channelSlice,  \* frontend: the channel slice's state [channel, loading, error, successMessage]
    thunks,        \* frontend: the dispatched thunks, requestId -> [thunk, phase]
    dispatched     \* frontend: the action the slice reduced last

vars == <<newUser, Channel, Video, Comment, nextId, response, reqs, http,
          channelSlice, thunks, dispatched>>

Store == [newUser |-> newUser, Channel |-> Channel, Video |-> Video, Comment |-> Comment]

\* ------------------------------------------------------- array operations
\* Array.prototype.includes on an array of ids.
Includes(arr, x) == \E i \in DOMAIN arr : arr[i] = x

\* MongoDB $pull: removes every element matching the condition.
Pull(arr, S) == SelectSeq(arr, LAMBDA x : x \notin S)

\* arr.filter(e => e.toString() !== id.toString())
FilterOut(arr, x) == SelectSeq(arr, LAMBDA e : e # x)

\* Model.deleteMany / deleteOne: the documents of coll whose _id is not in S.
Without(coll, S) == [k \in DOMAIN coll \ S |-> coll[k]]

\* --------------------------------------------------------------- responses
\* new ApiResponse(status, data, message) sent with res.status(status).
ApiResponse(op, actor, id, status, message) ==
    [op |-> op, actor |-> actor, id |-> id, status |-> status, message |-> message]

\* throw new ApiError(status, message): the request ends, the store stays as db.
ApiError(db, op, actor, id, status, message) ==
    [db |-> db, res |-> ApiResponse(op, actor, id, status, message)]

Ok(db, op, actor, id, status, message) ==
    [db |-> db, res |-> ApiResponse(op, actor, id, status, message)]

\* ------------------------------------------------ accountController.js
\* registerUser with $and in place of $or in the duplicate query.
registerUser_and(db, name, email, password, id) ==
    IF name = 0 \/ email = 0 \/ password = 0
    THEN ApiError(db, "registerUser", null, null, 400, "All fields are required")
    ELSE IF \E u \in DOMAIN db.newUser :
                db.newUser[u].name = name /\ db.newUser[u].email = email
    THEN ApiError(db, "registerUser", null, null, 409,
                  "User with email or username already exists")
    ELSE Ok([db EXCEPT !.newUser = @ @@ (id :>
                [name |-> name, email |-> email, hasChannel |-> FALSE,
                 channelId |-> null, subscriptions |-> <<>>, likes |-> <<>>])],
            "registerUser", id, id, 201, "User created successfully")

\* registerUser: 400 when a field is missing, 409 when a user with the same
\* name or the same email exists, otherwise newUser.create (hasChannel,
\* channelId, subscriptions and likes take the schema defaults).
registerUser(db, name, email, password, id) ==
    IF name = 0 \/ email = 0 \/ password = 0
    THEN ApiError(db, "registerUser", null, null, 400, "All fields are required")
    ELSE IF \E u \in DOMAIN db.newUser :
                db.newUser[u].name = name \/ db.newUser[u].email = email
    THEN ApiError(db, "registerUser", null, null, 409,
                  "User with email or username already exists")
    ELSE Ok([db EXCEPT !.newUser = @ @@ (id :>
                [name |-> name, email |-> email, hasChannel |-> FALSE,
                 channelId |-> null, subscriptions |-> <<>>, likes |-> <<>>])],
            "registerUser", id, id, 201, "User created successfully")

\* newUser.updateMany({likes: {$in: videoIds}}, {$pull: {likes: {$in: videoIds}}})
pullLikes(db, videoIds) ==
    [db EXCEPT !.newUser =
        [u \in DOMAIN @ |-> [@[u] EXCEPT !.likes = Pull(@, videoIds)]]]

\* updateOne in place of updateMany: only the first matching user is updated.
pullSubscriptions_updateOne(db, channelId) ==
    LET match == {u \in DOMAIN db.newUser : Includes(db.newUser[u].subscriptions, channelId)}
    IN  IF match = {} THEN db
        ELSE LET first == CHOOSE u \in match : \A w \in match : u <= w
             IN  [db EXCEPT !.newUser[first].subscriptions = Pull(@, {channelId})]

\* newUser.updateMany({subscriptions: channelId}, {$pull: {subscriptions: channelId}})
pullSubscriptions(db, channelId) ==
    [db EXCEPT !.newUser =
        [u \in DOMAIN @ |-> [@[u] EXCEPT !.subscriptions = Pull(@, {channelId})]]]

\* The cascade with the subscriptions to the channel left in place.
accountChannelCascade_keepSubscriptions(db, channelId) ==
    LET videoIds == {v \in DOMAIN db.Video : db.Video[v].channelId = channelId}
        d1 == [db EXCEPT !.Video =
                  Without(@, {v \in DOMAIN @ : @[v].channelId = channelId})]
        d2 == IF videoIds # {} THEN pullLikes(d1, videoIds) ELSE d1
    IN  [d2 EXCEPT !.Channel = Without(@, {channelId})]

\* The cascade with the likes of the channel's videos left in place.
accountChannelCascade_keepLikes(db, channelId) ==
    LET d1 == [db EXCEPT !.Video =
                  Without(@, {v \in DOMAIN @ : @[v].channelId = channelId})]
        d3 == pullSubscriptions(d1, channelId)
    IN  [d3 EXCEPT !.Channel = Without(@, {channelId})]

\* The channel cascade inside deleteAccount (lines 157-182), for channelId.
accountChannelCascade(db, channelId) ==
    LET \* Video.find({ channelId }).select('_id')
        videoIds == {v \in DOMAIN db.Video : db.Video[v].channelId = channelId}
        \* Video.deleteMany({ channelId })
        d1 == [db EXCEPT !.Video =
                  Without(@, {v \in DOMAIN @ : @[v].channelId = channelId})]
        \* if (videoIds.length > 0) pull them from every user's likes
        d2 == IF videoIds # {} THEN pullLikes(d1, videoIds) ELSE d1
        d3 == pullSubscriptions(d2, channelId)
        \* Channel.findByIdAndDelete(channelId)
    IN  [d3 EXCEPT !.Channel = Without(@, {channelId})]

\* The step that takes the user out of the followed channels, left out.
pullSubscriber_skipped(db, subs, userId) == db

\* Channel.updateMany({_id: {$in: subs}}, {$pull: {subscribers: userId}})
pullSubscriber(db, subs, userId) ==
    [db EXCEPT !.Channel =
        [c \in DOMAIN @ |-> IF Includes(subs, c)
                            THEN [@[c] EXCEPT !.subscribers = Pull(@, {userId})]
                            ELSE @[c]]]

\* Video.deleteMany({ owner: userId })
deleteOwnedVideos(db, userId) ==
    [db EXCEPT !.Video = Without(@, {v \in DOMAIN @ : @[v].owner = userId})]

\* Comment.deleteMany({ userId })
deleteUserComments(db, userId) ==
    [db EXCEPT !.Comment = Without(@, {c \in DOMAIN @ : @[c].userId = userId})]

\* Video.updateMany({likes: userId}, {$pull: {likes: userId}})
pullVideoLikes(db, userId) ==
    [db EXCEPT !.Video = [v \in DOMAIN @ |-> [@[v] EXCEPT !.likes = Pull(@, {userId})]]]

\* deleteAccount after the user was loaded (lines 157-205).
accountCascade(db, userId) ==
    LET user == db.newUser[userId]
        d1 == IF user.channelId # null
              THEN accountChannelCascade(db, user.channelId) ELSE db
        d2 == IF Len(user.subscriptions) > 0
              THEN pullSubscriber(d1, user.subscriptions, userId) ELSE d1
        d3 == deleteOwnedVideos(d2, userId)
        d4 == deleteUserComments(d3, userId)
        d5 == pullVideoLikes(d4, userId)
        \* user.deleteOne()
    IN  [d5 EXCEPT !.newUser = Without(@, {userId})]

\* deleteAccount that answers 200 for a user that does not exist.
deleteAccount_silent(db, userId) ==
    Ok(IF userId \in DOMAIN db.newUser THEN accountCascade(db, userId) ELSE db,
       "deleteAccount", null, userId, 200,
       "Account and associated data deleted successfully")

\* deleteAccount(req.params.id): the whole handler, run without interruption.
deleteAccount(db, userId) ==
    IF userId \notin DOMAIN db.newUser
    THEN ApiError(db, "deleteAccount", null, userId, 404, "User not found")
    ELSE Ok(accountCascade(db, userId), "deleteAccount", null, userId, 200,
            "Account and associated data deleted successfully")

\* ------------------------------------------------ channelController.js
\* createChannel with the hasChannel check left out.
createChannel_noCheck(db, userId, id) ==
    IF userId \notin DOMAIN db.newUser
    THEN ApiError(db, "createChannel", userId, null, 404, "User not found")
    ELSE LET d1 == [db EXCEPT !.Channel = @ @@ (id :> [owner |-> userId, subscribers |-> <<>>])]
             d2 == [d1 EXCEPT !.newUser[userId].hasChannel = TRUE,
                              !.newUser[userId].channelId = id]
         IN  Ok(d2, "createChannel", userId, id, 201, "Channel created successfully")

\* createChannel: the user must exist and have hasChannel = false.
createChannel(db, userId, id) ==
    IF userId \notin DOMAIN db.newUser
    THEN ApiError(db, "createChannel", userId, null, 404, "User not found")
    ELSE IF db.newUser[userId].hasChannel
    THEN ApiError(db, "createChannel", userId, null, 400, "User already has a channel")
    ELSE LET d1 == [db EXCEPT !.Channel = @ @@ (id :> [owner |-> userId, subscribers |-> <<>>])]
             d2 == [d1 EXCEPT !.newUser[userId].hasChannel = TRUE,
                              !.newUser[userId].channelId = id]
         IN  Ok(d2, "createChannel", userId, id, 201, "Channel created successfully")

\* subscribeToChannel with the write to user.subscriptions left out.
subscribeToChannel_channelOnly(db, userId, channelId) ==
    IF channelId \notin DOMAIN db.Channel
    THEN ApiError(db, "subscribeToChannel", userId, channelId, 404, "Channel not found")
    ELSE IF Includes(db.Channel[channelId].subscribers, userId)
    THEN ApiError(db, "subscribeToChannel", userId, channelId, 400,
                  "Already subscribed to this channel")
    ELSE Ok([db EXCEPT !.Channel[channelId].subscribers = Append(@, userId)],
            "subscribeToChannel", userId, channelId, 200, "Subscribed successfully")

\* subscribeToChannel with the already-subscribed check left out.
subscribeToChannel_noCheck(db, userId, channelId) ==
    IF channelId \notin DOMAIN db.Channel
    THEN ApiError(db, "subscribeToChannel", userId, channelId, 404, "Channel not found")
    ELSE LET d1 == [db EXCEPT !.Channel[channelId].subscribers = Append(@, userId)]
         IN  IF userId \notin DOMAIN d1.newUser
             THEN ApiError(d1, "subscribeToChannel", userId, channelId, 500, "TypeError")
             ELSE Ok([d1 EXCEPT !.newUser[userId].subscriptions = Append(@, channelId)],
                     "subscribeToChannel", userId, channelId, 200, "Subscribed successfully")

\* subscribeToChannel: channel.save() precedes newUser.findById(userId); a
\* user that no longer exists makes user.subscriptions throw after the save.
subscribeToChannel(db, userId, channelId) ==
    IF channelId \notin DOMAIN db.Channel
    THEN ApiError(db, "subscribeToChannel", userId, channelId, 404, "Channel not found")
    ELSE IF Includes(db.Channel[channelId].subscribers, userId)
    THEN ApiError(db, "subscribeToChannel", userId, channelId, 400,
                  "Already subscribed to this channel")
    ELSE LET d1 == [db EXCEPT !.Channel[channelId].subscribers = Append(@, userId)]
         IN  IF userId \notin DOMAIN d1.newUser
             THEN ApiError(d1, "subscribeToChannel", userId, channelId, 500, "TypeError")
             ELSE Ok([d1 EXCEPT !.newUser[userId].subscriptions = Append(@, channelId)],
                     "subscribeToChannel", userId, channelId, 200, "Subscribed successfully")

\* unsubscribeFromChannel that drops the entry after the removed one as well
\* (a splice with the wrong count).
unsubscribeFromChannel_splice(db, userId, channelId) ==
    IF channelId \notin DOMAIN db.Channel
    THEN ApiError(db, "unsubscribeFromChannel", userId, channelId, 404, "Channel not found")
    ELSE IF ~Includes(db.Channel[channelId].subscribers, userId)
    THEN ApiError(db, "unsubscribeFromChannel", userId, channelId, 400,
                  "Not subscribed to this channel")
    ELSE LET subs == db.Channel[channelId].subscribers
             i == CHOOSE k \in DOMAIN subs : subs[k] = userId
             d1 == [db EXCEPT !.Channel[channelId].subscribers =
                        SubSeq(subs, 1, i - 1) \o SubSeq(subs, i + 2, Len(subs))]
         IN  IF userId \notin DOMAIN d1.newUser
             THEN ApiError(d1, "unsubscribeFromChannel", userId, channelId, 500, "TypeError")
             ELSE Ok([d1 EXCEPT !.newUser[userId].subscriptions = FilterOut(@, channelId)],
                     "unsubscribeFromChannel", userId, channelId, 200,
                     "Unsubscribed successfully")

\* unsubscribeFromChannel: filters the user out of channel.subscribers, saves,
\* then filters the channel out of user.subscriptions.
unsubscribeFromChannel(db, userId, channelId) ==
    IF channelId \notin DOMAIN db.Channel
    THEN ApiError(db, "unsubscribeFromChannel", userId, channelId, 404, "Channel not found")
    ELSE IF ~Includes(db.Channel[channelId].subscribers, userId)
    THEN ApiError(db, "unsubscribeFromChannel", userId, channelId, 400,
                  "Not subscribed to this channel")
    ELSE LET d1 == [db EXCEPT !.Channel[channelId].subscribers = FilterOut(@, userId)]
         IN  IF userId \notin DOMAIN d1.newUser
             THEN ApiError(d1, "unsubscribeFromChannel", userId, channelId, 500, "TypeError")
             ELSE Ok([d1 EXCEPT !.newUser[userId].subscriptions = FilterOut(@, channelId)],
                     "unsubscribeFromChannel", userId, channelId, 200,
                     "Unsubscribed successfully")

\* channel.videos after populate("videos"): the channel's video set, which the
\* data model derives from Video.channelId.
channelVideos(db, channelId) ==
    {v \in DOMAIN db.Video : db.Video[v].channelId = channelId}

\* deleteChannel after the authorization check (lines 176-201).
channelCascade(db, userId, channelId) ==
    LET videoIds == channelVideos(db, channelId)
        \* Video.deleteMany({_id: {$in: videoIds}})
        d1 == [db EXCEPT !.Video = Without(@, videoIds)]
        d2 == pullSubscriptions(d1, channelId)
        d3 == pullLikes(d2, videoIds)
        \* channel.deleteOne()
        d4 == [d3 EXCEPT !.Channel = Without(@, {channelId})]
        \* if (user) { user.hasChannel = false; user.channelId = null; save }
    IN  IF userId \in DOMAIN d4.newUser
        THEN [d4 EXCEPT !.newUser[userId].hasChannel = FALSE,
                        !.newUser[userId].channelId = null]
        ELSE d4

\* deleteChannel with the owner check left out.
deleteChannel_noAuth(db, userId, channelId) ==
    IF channelId \notin DOMAIN db.Channel
    THEN ApiError(db, "deleteChannel", userId, channelId, 404, "Channel not found")
    ELSE Ok(channelCascade(db, userId, channelId), "deleteChannel", userId, channelId,
            200, "Channel and associated data deleted successfully")

\* deleteChannel: only the owner may delete the channel.
deleteChannel(db, userId, channelId) ==
    IF channelId \notin DOMAIN db.Channel
    THEN ApiError(db, "deleteChannel", userId, channelId, 404, "Channel not found")
    ELSE IF db.Channel[channelId].owner # userId
    THEN ApiError(db, "deleteChannel", userId, channelId, 403,
                  "You are not authorized to delete this channel")
    ELSE Ok(channelCascade(db, userId, channelId), "deleteChannel", userId, channelId,
            200, "Channel and associated data deleted successfully")

\* ------------------------------------ video and comment flows (section 4)
\* Publish: a video of the acting user under that user's own channel
\* (data-model invariant 2).
publishAVideo(db, userId, id) ==
    IF userId \notin DOMAIN db.newUser \/ ~db.newUser[userId].hasChannel
    THEN ApiError(db, "publishAVideo", userId, null, 400, "Channel required")
    ELSE Ok([db EXCEPT !.Video = @ @@ (id :>
                [owner |-> userId, channelId |-> db.newUser[userId].channelId,
                 likes |-> <<>>])],
            "publishAVideo", userId, id, 201, "Video published")

\* Like: Conflict when already liked, otherwise both video.likes and user.likes.
likeVideo(db, userId, videoId) ==
    IF videoId \notin DOMAIN db.Video \/ userId \notin DOMAIN db.newUser
    THEN ApiError(db, "likeVideo", userId, videoId, 404, "Video not found")
    ELSE IF Includes(db.Video[videoId].likes, userId)
    THEN ApiError(db, "likeVideo", userId, videoId, 400, "Already liked")
    ELSE Ok([db EXCEPT !.Video[videoId].likes = Append(@, userId),
                       !.newUser[userId].likes = Append(@, videoId)],
            "likeVideo", userId, videoId, 200, "Liked")

\* Comment post: a comment of the acting user attached to a video.
addComment(db, userId, videoId, id) ==
    IF videoId \notin DOMAIN db.Video \/ userId \notin DOMAIN db.newUser
    THEN ApiError(db, "addComment", userId, videoId, 404, "Video not found")
    ELSE Ok([db EXCEPT !.Comment = @ @@ (id :> [userId |-> userId, videoId |-> videoId])],
            "addComment", userId, id, 201, "Comment added")

\* ------------------------------------------------- routes/videoRoutes.js
\* The router's stack in registration order (lines 14-24): a route layer
\* answers one path pattern and one method with its handlers in order, a use
\* layer runs for every request that reaches it. A request path is named by the
\* pattern it matches; no path matches two of the patterns.
router_useLast ==
    << [kind |-> "route", path |-> "/allVideo", method |-> "GET",
        handlers |-> <<"getAllVideos">>],
       [kind |-> "route", path |-> "/videoData/:id", method |-> "GET",
        handlers |-> <<"VideoDataById">>],
       [kind |-> "route", path |-> "/allUserVideo/:owner", method |-> "GET",
        handlers |-> <<"getAllUserVideos">>],
       [kind |-> "route", path |-> "/publish", method |-> "POST",
        handlers |-> <<"videoUpload", "publishAVideo">>],
       [kind |-> "route", path |-> "/delete/:id", method |-> "DELETE",
        handlers |-> <<"deleteVideoById">>],
       [kind |-> "route", path |-> "/incrementView/:id", method |-> "PUT",
        handlers |-> <<"viewsIncrement">>],
       [kind |-> "route", path |-> "/like", method |-> "POST",
        handlers |-> <<"likeVideo">>],
       [kind |-> "route", path |-> "/removelike", method |-> "POST",
        handlers |-> <<"removeLikeVideo">>],
       [kind |-> "route", path |-> "/update/:id", method |-> "PUT",
        handlers |-> <<"upload.fields", "updateVideo">>],
       [kind |-> "use", path |-> "*", method |-> "*",
        handlers |-> <<"verifyJWT">>] >>

router ==
    << [kind |-> "route", path |-> "/allVideo", method |-> "GET",
        handlers |-> <<"getAllVideos">>],
       [kind |-> "route", path |-> "/videoData/:id", method |-> "GET",
        handlers |-> <<"VideoDataById">>],
       [kind |-> "route", path |-> "/allUserVideo/:owner", method |-> "GET",
        handlers |-> <<"getAllUserVideos">>],
       [kind |-> "use", path |-> "*", method |-> "*",
        handlers |-> <<"verifyJWT">>],
       [kind |-> "route", path |-> "/publish", method |-> "POST",
        handlers |-> <<"videoUpload", "publishAVideo">>],
       [kind |-> "route", path |-> "/delete/:id", method |-> "DELETE",
        handlers |-> <<"deleteVideoById">>],
       [kind |-> "route", path |-> "/incrementView/:id", method |-> "PUT",
        handlers |-> <<"viewsIncrement">>],
       [kind |-> "route", path |-> "/like", method |-> "POST",
        handlers |-> <<"likeVideo">>],
       [kind |-> "route", path |-> "/removelike", method |-> "POST",
        handlers |-> <<"removeLikeVideo">>],
       [kind |-> "route", path |-> "/update/:id", method |-> "PUT",
        handlers |-> <<"upload.fields", "updateVideo">>] >>

ReadHandlers == {"getAllVideos", "VideoDataById", "getAllUserVideos"}

MutatingHandlers ==
    {"publishAVideo", "deleteVideoById", "viewsIncrement", "likeVideo",
     "removeLikeVideo", "updateVideo"}

\* Multer middlewares: they pass the request on or end it with an error.
Uploads == {"videoUpload", "upload.fields"}

Methods == {"GET", "POST", "PUT", "DELETE"}

\* The nine route patterns and a path that matches none of them.
Paths == {router[k].path : k \in {j \in 1..Len(router) : router[j].kind = "route"}}
            \cup {"/other"}

\* What the request carries for verifyJWT: no token, a bad one, a good one.
Tokens == {"none", "invalid", "valid"}

\* No request yet. layer and handler say where the request is in the stack,
\* log lists the functions called for it, auth what verifyJWT decided, status
\* the answer (0 while travelling), served the controller that answered the
\* request before this one and whether verifyJWT had accepted that request.
NoHttp ==
    [method |-> "none", path |-> "none", token |-> "none", layer |-> 1, handler |-> 1,
     log |-> << >>, auth |-> "none", status |-> 404,
     served |-> [handler |-> "none", auth |-> "none"]]

RouterFrame ==
    UNCHANGED <<newUser, Channel, Video, Comment, nextId, response, reqs,
                channelSlice, thunks, dispatched>>

\* A request arrives at the router once the previous one has been answered.
Receive ==
    \E method \in Methods, path \in Paths, token \in Tokens :
        /\ http.status # 0
        /\ http' = [NoHttp EXCEPT !.method = method, !.path = path, !.token = token,
                                  !.status = 0,
                                  !.served = IF http.status = 200
                                             THEN [handler |-> http.log[Len(http.log)],
                                                   auth |-> http.auth]
                                             ELSE http.served]
        /\ RouterFrame

\* The layer does not apply to the request: the router tries the next one.
Skip ==
    /\ http.status = 0
    /\ http.layer <= Len(router)
    /\ LET l == router[http.layer]
       IN  /\ l.kind = "route"
           /\ (l.path # http.path \/ l.method # http.method)
    /\ http' = [http EXCEPT !.layer = @ + 1]
    /\ RouterFrame

\* router.use(verifyJWT): next() for a valid token, 401 otherwise.
VerifyJWT ==
    /\ http.status = 0
    /\ http.layer <= Len(router)
    /\ router[http.layer].kind = "use"
    /\ http' = IF http.token = "valid"
               THEN [http EXCEPT !.log = Append(@, "verifyJWT"), !.auth = "accepted",
                                 !.layer = @ + 1]
               ELSE [http EXCEPT !.log = Append(@, "verifyJWT"), !.auth = "rejected",
                                 !.status = 401]
    /\ RouterFrame

\* The next handler of the matching route is called: an upload middleware
\* passes the request on or fails, a controller answers.
Handle ==
    /\ http.status = 0
    /\ http.layer <= Len(router)
    /\ LET l == router[http.layer]
           h == l.handlers[http.handler]
       IN  /\ l.kind = "route"
           /\ l.path = http.path
           /\ l.method = http.method
           /\ IF h \in Uploads
              THEN \/ http' = [http EXCEPT !.log = Append(@, h), !.handler = @ + 1]
                   \/ http' = [http EXCEPT !.log = Append(@, h), !.status = 500]
              ELSE http' = [http EXCEPT !.log = Append(@, h), !.status = 200]
    /\ RouterFrame

\* No layer is left: the request leaves the router unanswered.
NotFound ==
    /\ http.status = 0
    /\ http.layer > Len(router)
    /\ http' = [http EXCEPT !.status = 404]
    /\ RouterFrame

NextRoutes ==
    \/ Receive
    \/ Skip
    \/ VerifyJWT
    \/ Handle
    \/ NotFound

\* ------------------------------------------ frontend/src/Redux/channelSlice.js
\* The type prefixes of the six thunks (createChannel, getChannel,
\* updateChannel, deleteChannel, subscribeChannel, unsubscribeChannel).
Thunks ==
    {"channel/createChannel", "channel/data", "channel/updateChannel",
     "channel/delete", "channel/subscribe", "channel/unsubscribe"}

\* Non-null payloads: a channel object, a message or an error value.
Payloads == 1..MaxPayloads

\* A null successMessage; the other values of the field are strings.
noMessage == "null"

initialState ==
    [channel |-> null, loading |-> FALSE, error |-> null, successMessage |-> noMessage]

RequestIds == 1..MaxThunks

NoThunk == [thunk |-> "none", phase |-> "none"]

NoAction == [type |-> "none", phase |-> "none", payload |-> null, requestId |-> null]

\* extraReducers, the pending cases (subscribe and unsubscribe have none).
pendingCase(state, thunk) ==
    CASE thunk = "channel/createChannel" ->
            [state EXCEPT !.loading = TRUE, !.error = null, !.successMessage = noMessage]
      [] thunk = "channel/data" ->
            [state EXCEPT !.loading = TRUE, !.error = null]
      [] thunk = "channel/updateChannel" ->
            [state EXCEPT !.loading = TRUE, !.error = null, !.successMessage = noMessage]
      [] thunk = "channel/delete" ->
            [state EXCEPT !.loading = TRUE, !.error = null, !.successMessage = noMessage]
      [] OTHER -> state

\* extraReducers, the fulfilled cases.
fulfilledCase_subscribeStoresPayload(state, thunk, payload) ==
    IF thunk \in {"channel/subscribe", "channel/unsubscribe"}
    THEN [state EXCEPT !.loading = FALSE, !.channel = payload]
    ELSE [state EXCEPT !.loading = FALSE]

fulfilledCase(state, thunk, payload) ==
    CASE thunk = "channel/createChannel" ->
            [state EXCEPT !.loading = FALSE, !.channel = payload,
                          !.successMessage = "Channel created successfully!"]
      [] thunk = "channel/data" ->
            [state EXCEPT !.loading = FALSE, !.channel = payload]
      [] thunk = "channel/updateChannel" ->
            [state EXCEPT !.loading = FALSE, !.channel = payload,
                          !.successMessage = "Channel updated successfully!"]
      [] thunk = "channel/delete" ->
            [state EXCEPT !.loading = FALSE, !.channel = null]
      [] thunk = "channel/subscribe" ->
            [state EXCEPT !.loading = FALSE]
      [] thunk = "channel/unsubscribe" ->
            [state EXCEPT !.loading = FALSE]

\* extraReducers, the rejected cases: the same two assignments for each thunk.
rejectedCase_createKeepsLoading(state, thunk, payload) ==
    IF thunk = "channel/createChannel"
    THEN [state EXCEPT !.error = payload]
    ELSE [state EXCEPT !.loading = FALSE, !.error = payload]

rejectedCase(state, thunk, payload) ==
    CASE thunk = "channel/createChannel" ->
            [state EXCEPT !.loading = FALSE, !.error = payload]
      [] thunk = "channel/data" ->
            [state EXCEPT !.loading = FALSE, !.error = payload]
      [] thunk = "channel/updateChannel" ->
            [state EXCEPT !.loading = FALSE, !.error = payload]
      [] thunk = "channel/delete" ->
            [state EXCEPT !.loading = FALSE, !.error = payload]
      [] thunk = "channel/subscribe" ->
            [state EXCEPT !.loading = FALSE, !.error = payload]
      [] thunk = "channel/unsubscribe" ->
            [state EXCEPT !.loading = FALSE, !.error = payload]

\* channelSlice.reducer: reducers (clearError, clearSuccessMessage) and
\* extraReducers; an action with no case leaves the state as it is.
reducer(state, action) ==
    CASE action.phase = "pending" -> pendingCase(state, action.type)
      [] action.phase = "fulfilled" -> fulfilledCase(state, action.type, action.payload)
      [] action.phase = "rejected" -> rejectedCase(state, action.type, action.payload)
      [] action.type = "channel/clearError" -> [state EXCEPT !.error = null]
      [] action.type = "channel/clearSuccessMessage" ->
            [state EXCEPT !.successMessage = noMessage]
      [] OTHER -> state

SliceFrame ==
    UNCHANGED <<newUser, Channel, Video, Comment, nextId, response, reqs, http>>

\* The store reduces the action.
Reduce(action) ==
    /\ dispatched' = action
    /\ channelSlice' = reducer(channelSlice, action)
    /\ SliceFrame

\* dispatch(thunk(arg)): createAsyncThunk dispatches the pending action at once.
\* The thunk takes the lowest requestId that is not in flight.
DispatchThunk ==
    \E thunk \in Thunks, i \in RequestIds :
        /\ thunks[i].phase # "pending"
        /\ \A j \in RequestIds : j < i => thunks[j].phase = "pending"
        /\ thunks' = [thunks EXCEPT ![i] = [thunk |-> thunk, phase |-> "pending"]]
        /\ Reduce([type |-> thunk, phase |-> "pending", payload |-> null, requestId |-> i])

\* The request of a thunk in flight succeeds: its fulfilled action.
Fulfil ==
    \E i \in RequestIds, payload \in Payloads :
        /\ thunks[i].phase = "pending"
        /\ thunks' = [thunks EXCEPT ![i].phase = "fulfilled"]
        /\ Reduce([type |-> thunks[i].thunk, phase |-> "fulfilled", payload |-> payload,
                   requestId |-> i])

\* The request of a thunk in flight fails (rejectWithValue) or the thunk is
\* aborted (no payload): its rejected action.
Reject ==
    \E i \in RequestIds, payload \in Payloads \cup {null} :
        /\ thunks[i].phase = "pending"
        /\ thunks' = [thunks EXCEPT ![i].phase = "rejected"]
        /\ Reduce([type |-> thunks[i].thunk, phase |-> "rejected", payload |-> payload,
                   requestId |-> i])

clearError ==
    /\ Reduce([NoAction EXCEPT !.type = "channel/clearError", !.phase = "sync"])
    /\ UNCHANGED thunks

clearSuccessMessage ==
    /\ Reduce([NoAction EXCEPT !.type = "channel/clearSuccessMessage", !.phase = "sync"])
    /\ UNCHANGED thunks

NextSlice ==
    \/ DispatchThunk
    \/ Fulfil
    \/ Reject
    \/ clearError
    \/ clearSuccessMessage

\* ------------------------------------------------------------ the machine
\* A handler that is suspended at a store operation: where it is (pc), what it
\* has loaded or computed (arr, channelId, videoIds), the status it answered.
\* delVideos, delChannels and foreign record what a deleteAccount has deleted
\* so far and which videos of the user lay outside the user's channel.
NoReq ==
    [op |-> "none", actor |-> null, id |-> null, pc |-> "done", arr |-> << >>,
     channelId |-> null, videoIds |-> {}, status |-> 0,
     delVideos |-> {}, delChannels |-> {}, foreign |-> {}]

Slots == 1..MaxReqs

Init ==
    /\ newUser = << >>
    /\ Channel = << >>
    /\ Video = << >>
    /\ Comment = << >>
    /\ nextId = [user |-> 1, channel |-> 1, video |-> 1, comment |-> 1]
    /\ response = ApiResponse("none", null, null, 200, "")
    /\ reqs = [i \in Slots |-> NoReq]
    /\ http = NoHttp
    /\ channelSlice = initialState
    /\ thunks = [i \in RequestIds |-> NoThunk]
    /\ dispatched = NoAction

\* The request completes: the store becomes r.db and r.res is sent.
Complete(r) ==
    /\ newUser' = r.db.newUser
    /\ Channel' = r.db.Channel
    /\ Video' = r.db.Video
    /\ Comment' = r.db.Comment
    /\ response' = r.res
    /\ UNCHANGED <<reqs, http, channelSlice, thunks, dispatched>>

\* A token names a user that has registered at some time (possibly deleted since).
Actors == 1..(nextId.user - 1)

RegisterUser ==
    \E name \in Fields, email \in Fields, password \in 0..1 :
        /\ nextId.user <= MaxUsers
        /\ LET r == registerUser(Store, name, email, password, nextId.user)
           IN  /\ Complete(r)
               /\ nextId' = IF r.res.status = 201
                            THEN [nextId EXCEPT !.user = @ + 1] ELSE nextId

DeleteAccount ==
    \E id \in UserIds :
        /\ Complete(deleteAccount(Store, id))
        /\ UNCHANGED nextId

CreateChannel ==
    \E userId \in Actors :
        /\ nextId.channel <= MaxChannels
        /\ LET r == createChannel(Store, userId, nextId.channel)
           IN  /\ Complete(r)
               /\ nextId' = IF r.res.status = 201
                            THEN [nextId EXCEPT !.channel = @ + 1] ELSE nextId

SubscribeToChannel ==
    \E userId \in Actors, channelId \in ChannelIds :
        /\ Complete(subscribeToChannel(Store, userId, channelId))
        /\ UNCHANGED nextId

UnsubscribeFromChannel ==
    \E userId \in Actors, channelId \in ChannelIds :
        /\ Complete(unsubscribeFromChannel(Store, userId, channelId))
        /\ UNCHANGED nextId

DeleteChannel ==
    \E userId \in Actors, channelId \in ChannelIds :
        /\ Complete(deleteChannel(Store, userId, channelId))
        /\ UNCHANGED nextId

PublishAVideo ==
    \E userId \in Actors :
        /\ nextId.video <= MaxVideos
        /\ LET r == publishAVideo(Store, userId, nextId.video)
           IN  /\ Complete(r)
               /\ nextId' = IF r.res.status = 201
                            THEN [nextId EXCEPT !.video = @ + 1] ELSE nextId

LikeVideo ==
    \E userId \in Actors, videoId \in VideoIds :
        /\ Complete(likeVideo(Store, userId, videoId))
        /\ UNCHANGED nextId

AddComment ==
    \E userId \in Actors, videoId \in VideoIds :
        /\ nextId.comment <= MaxComments
        /\ LET r == addComment(Store, userId, videoId, nextId.comment)
           IN  /\ Complete(r)
               /\ nextId' = IF r.res.status = 201
                            THEN [nextId EXCEPT !.comment = @ + 1] ELSE nextId

Next ==
    \/ RegisterUser
    \/ DeleteAccount
    \/ CreateChannel
    \/ SubscribeToChannel
    \/ UnsubscribeFromChannel
    \/ DeleteChannel
    \/ PublishAVideo
    \/ LikeVideo
    \/ AddComment

Spec == Init /\ [][Next]_vars

\* Requests to the video router, one at a time.
SpecRoutes == Init /\ [][NextRoutes]_vars

\* Actions dispatched to the frontend store's channel slice.
SpecSlice == Init /\ [][NextSlice]_vars

TypeOK ==
    /\ DOMAIN newUser \subseteq UserIds
    /\ DOMAIN Channel \subseteq ChannelIds
    /\ DOMAIN Video \subseteq VideoIds
    /\ DOMAIN Comment \subseteq CommentIds

\* ------------------------------------------- stores to start a race from
\* A store together with the id counters, as the requests run one at a time
\* leave them.
World(db, ids) == [db |-> db, ids |-> ids]

wRegister(w, u) ==
    LET r == registerUser(w.db, u, u, 1, w.ids.user)
    IN  World(r.db, IF r.res.status = 201 THEN [w.ids EXCEPT !.user = @ + 1] ELSE w.ids)

wCreateChannel(w, u) ==
    LET r == createChannel(w.db, u, w.ids.channel)
    IN  World(r.db, IF r.res.status = 201 THEN [w.ids EXCEPT !.channel = @ + 1] ELSE w.ids)

wPublish(w, u) ==
    LET r == publishAVideo(w.db, u, w.ids.video)
    IN  World(r.db, IF r.res.status = 201 THEN [w.ids EXCEPT !.video = @ + 1] ELSE w.ids)

wSubscribe(w, uc) == World(subscribeToChannel(w.db, uc[1], uc[2]).db, w.ids)

wLike(w, uv) == World(likeVideo(w.db, uv[1], uv[2]).db, w.ids)

\* One completed request of the kind op.
Apply(op, w, x) ==
    CASE op = "registerUser" -> wRegister(w, x)
      [] op = "createChannel" -> wCreateChannel(w, x)
      [] op = "publishAVideo" -> wPublish(w, x)
      [] op = "subscribeToChannel" -> wSubscribe(w, x)
      [] op = "likeVideo" -> wLike(w, x)

\* The requests of S applied one after the other.
RunAll(op, w, S) ==
    LET run[T \in SUBSET S] ==
            IF T = {} THEN w
            ELSE LET x == CHOOSE y \in T : TRUE IN Apply(op, run[T \ {x}], x)
    IN  run[S]

\* Every user registers; the users in owners create a channel, those in pubs
\* publish a video, then the subscriptions subs and the likes likes are made.
Scenario(owners, pubs, subs, likes) ==
    LET w0 == World([newUser |-> << >>, Channel |-> << >>, Video |-> << >>,
                     Comment |-> << >>],
                    [user |-> 1, channel |-> 1, video |-> 1, comment |-> 1])
        w1 == RunAll("registerUser", w0, UserIds)
        w2 == RunAll("createChannel", w1, owners)
        w3 == RunAll("publishAVideo", w2, pubs)
        w4 == RunAll("subscribeToChannel", w3, subs)
    IN  RunAll("likeVideo", w4, likes)

Scenarios ==
    {Scenario(owners, pubs, subs, likes) :
        owners \in {o \in SUBSET UserIds : Cardinality(o) < MaxChannels},
        pubs \in {q \in SUBSET UserIds : Cardinality(q) < MaxVideos + 1},
        subs \in SUBSET (UserIds \X {1}),
        likes \in SUBSET (UserIds \X {1})}

\* A store that requests run one at a time have left, and no request in flight.
InitRace ==
    \E w \in Scenarios :
        /\ newUser = w.db.newUser
        /\ Channel = w.db.Channel
        /\ Video = w.db.Video
        /\ Comment = w.db.Comment
        /\ nextId = w.ids
        /\ response = ApiResponse("none", null, null, 200, "")
        /\ reqs = [i \in Slots |-> NoReq]
        /\ http = NoHttp
        /\ channelSlice = initialState
        /\ thunks = [i \in RequestIds |-> NoThunk]
        /\ dispatched = NoAction

\* --------------------------------------- handlers, one store operation a step
SetStore(db) ==
    /\ newUser' = db.newUser
    /\ Channel' = db.Channel
    /\ Video' = db.Video
    /\ Comment' = db.Comment

KeepStore == UNCHANGED <<newUser, Channel, Video, Comment>>

Goto(i, r) == reqs' = [reqs EXCEPT ![i] = r]

\* The handler answers (or throws) with this status and ends.
Finish(r, status) == [r EXCEPT !.pc = "done", !.status = status]

InFlight(i) == reqs[i].op # "none" /\ reqs[i].pc \notin {"done", "failed"}

Quiet == \A i \in Slots : ~InFlight(i)

\* A request enters its handler in a slot not used before.
Start(i, op, actor, id) ==
    /\ reqs[i].op = "none"
    /\ \A j \in Slots : j < i => reqs[j].op # "none"
    /\ Goto(i, [NoReq EXCEPT !.op = op, !.actor = actor, !.id = id, !.pc = "find"])
    /\ KeepStore
    /\ UNCHANGED <<nextId, response, http, channelSlice, thunks, dispatched>>

\* deleteAccount: the store operation that follows the one at r.pc.
accountNext_userFirst(r) ==
    CASE r.pc = "find" -> "deleteUser"
      [] r.pc = "deleteUser" ->
            IF r.channelId # null THEN "findVideos"
            ELSE IF Len(r.arr) > 0 THEN "pullSubscriber" ELSE "deleteOwnedVideos"
      [] r.pc = "findVideos" -> "deleteChannelVideos"
      [] r.pc = "deleteChannelVideos" ->
            IF r.videoIds # {} THEN "pullLikes" ELSE "pullSubscriptions"
      [] r.pc = "pullLikes" -> "pullSubscriptions"
      [] r.pc = "pullSubscriptions" -> "deleteChannel"
      [] r.pc = "deleteChannel" ->
            IF Len(r.arr) > 0 THEN "pullSubscriber" ELSE "deleteOwnedVideos"
      [] r.pc = "pullSubscriber" -> "deleteOwnedVideos"
      [] r.pc = "deleteOwnedVideos" -> "deleteComments"
      [] r.pc = "deleteComments" -> "pullVideoLikes"
      [] OTHER -> "done"

accountNext(r) ==
    CASE r.pc = "find" ->
            IF r.channelId # null THEN "findVideos"
            ELSE IF Len(r.arr) > 0 THEN "pullSubscriber" ELSE "deleteOwnedVideos"
      [] r.pc = "findVideos" -> "deleteChannelVideos"
      [] r.pc = "deleteChannelVideos" ->
            IF r.videoIds # {} THEN "pullLikes" ELSE "pullSubscriptions"
      [] r.pc = "pullLikes" -> "pullSubscriptions"
      [] r.pc = "pullSubscriptions" -> "deleteChannel"
      [] r.pc = "deleteChannel" ->
            IF Len(r.arr) > 0 THEN "pullSubscriber" ELSE "deleteOwnedVideos"
      [] r.pc = "pullSubscriber" -> "deleteOwnedVideos"
      [] r.pc = "deleteOwnedVideos" -> "deleteComments"
      [] r.pc = "deleteComments" -> "pullVideoLikes"
      [] r.pc = "pullVideoLikes" -> "deleteUser"
      [] OTHER -> "done"

\* The request moves past the operation at r.pc; after the last one it answers 200.
Advance(i, r) ==
    LET pc == accountNext(r)
    IN  Goto(i, IF pc = "done" THEN Finish(r, 200) ELSE [r EXCEPT !.pc = pc])

\* One store operation of deleteAccount (accountController.js 152-205).
DeleteAccountStep(i) ==
    LET r == reqs[i]
        db == Store
    IN  /\ r.op = "deleteAccount"
        /\ InFlight(i)
        /\ UNCHANGED <<nextId, response, http, channelSlice, thunks, dispatched>>
        /\ CASE r.pc = "find" ->
                  \* newUser.findById(userId)
                  /\ KeepStore
                  /\ IF r.id \notin DOMAIN newUser
                     THEN Goto(i, Finish(r, 404))
                     ELSE LET user == newUser[r.id]
                          IN  Advance(i, [r EXCEPT
                                 !.channelId = user.channelId,
                                 !.arr = user.subscriptions,
                                 !.foreign = {v \in DOMAIN Video :
                                                 /\ Video[v].owner = r.id
                                                 /\ Video[v].channelId # user.channelId}])
             [] r.pc = "findVideos" ->
                  \* Video.find({ channelId }).select('_id')
                  /\ KeepStore
                  /\ Advance(i, [r EXCEPT !.videoIds =
                        {v \in DOMAIN Video : Video[v].channelId = r.channelId}])
             [] r.pc = "deleteChannelVideos" ->
                  \* Video.deleteMany({ channelId })
                  LET gone == {v \in DOMAIN Video : Video[v].channelId = r.channelId}
                  IN  /\ SetStore([db EXCEPT !.Video = Without(@, gone)])
                      /\ Advance(i, [r EXCEPT !.delVideos = @ \cup gone])
             [] r.pc = "pullLikes" ->
                  SetStore(pullLikes(db, r.videoIds)) /\ Advance(i, r)
             [] r.pc = "pullSubscriptions" ->
                  SetStore(pullSubscriptions(db, r.channelId)) /\ Advance(i, r)
             [] r.pc = "deleteChannel" ->
                  \* Channel.findByIdAndDelete(channelId)
                  /\ SetStore([db EXCEPT !.Channel = Without(@, {r.channelId})])
                  /\ Advance(i, [r EXCEPT !.delChannels =
                        @ \cup ({r.channelId} \cap DOMAIN Channel)])
             [] r.pc = "pullSubscriber" ->
                  SetStore(pullSubscriber(db, r.arr, r.id)) /\ Advance(i, r)
             [] r.pc = "deleteOwnedVideos" ->
                  /\ SetStore(deleteOwnedVideos(db, r.id))
                  /\ Advance(i, [r EXCEPT !.delVideos =
                        @ \cup {v \in DOMAIN Video : Video[v].owner = r.id}])
             [] r.pc = "deleteComments" ->
                  SetStore(deleteUserComments(db, r.id)) /\ Advance(i, r)
             [] r.pc = "pullVideoLikes" ->
                  SetStore(pullVideoLikes(db, r.id)) /\ Advance(i, r)
             [] r.pc = "deleteUser" ->
                  \* user.deleteOne()
                  /\ SetStore([db EXCEPT !.newUser = Without(@, {r.id})])
                  /\ Advance(i, r)

\* A store operation after the load of the user throws: the handler has no
\* try/catch, so the request ends there with the store as it is.
DeleteAccountFail(i) ==
    /\ reqs[i].op = "deleteAccount"
    /\ InFlight(i)
    /\ reqs[i].pc # "find"
    /\ Goto(i, [reqs[i] EXCEPT !.pc = "failed", !.status = 500])
    /\ KeepStore
    /\ UNCHANGED <<nextId, response, http, channelSlice, thunks, dispatched>>

\* deleteAccount requests, one at a time, any of whose store operations may fail.
StartDeleteAccountAlone ==
    \E i \in Slots, id \in UserIds : Quiet /\ Start(i, "deleteAccount", null, id)

StepDeleteAccount == \E i \in Slots : DeleteAccountStep(i)

FailDeleteAccount == \E i \in Slots : DeleteAccountFail(i)

NextAccountSteps ==
    \/ StartDeleteAccountAlone
    \/ StepDeleteAccount
    \/ FailDeleteAccount

SpecAccountSteps == InitRace /\ [][NextAccountSteps]_vars

\* doc.save() of a document that another request has deleted in the meantime:
\* nothing is written; depending on the Mongoose version the save throws
\* (DocumentNotFoundError) or resolves.
SaveMissing(i, r, pc) ==
    /\ KeepStore
    /\ \/ Goto(i, IF pc = "done" THEN Finish(r, r.status) ELSE [r EXCEPT !.pc = pc])
       \/ Goto(i, Finish(r, 500))

\* One store operation of subscribeToChannel (channelController.js 109-123).
SubscribeStep(i) ==
    LET r == reqs[i]
    IN  /\ r.op = "subscribeToChannel"
        /\ InFlight(i)
        /\ UNCHANGED <<nextId, response, http, channelSlice, thunks, dispatched>>
        /\ CASE r.pc = "find" ->
                  \* Channel.findById, the includes check, subscribers.push
                  /\ KeepStore
                  /\ IF r.id \notin DOMAIN Channel
                     THEN Goto(i, Finish(r, 404))
                     ELSE IF Includes(Channel[r.id].subscribers, r.actor)
                     THEN Goto(i, Finish(r, 400))
                     ELSE Goto(i, [r EXCEPT !.pc = "saveChannel",
                                    !.arr = Append(Channel[r.id].subscribers, r.actor)])
             [] r.pc = "saveChannel" ->
                  IF r.id \in DOMAIN Channel
                  THEN /\ Channel' = [Channel EXCEPT ![r.id].subscribers = r.arr]
                       /\ UNCHANGED <<newUser, Video, Comment>>
                       /\ Goto(i, [r EXCEPT !.pc = "findUser"])
                  ELSE SaveMissing(i, r, "findUser")
             [] r.pc = "findUser" ->
                  \* newUser.findById, subscriptions.push (TypeError on null)
                  /\ KeepStore
                  /\ IF r.actor \notin DOMAIN newUser
                     THEN Goto(i, Finish(r, 500))
                     ELSE Goto(i, [r EXCEPT !.pc = "saveUser",
                                    !.arr = Append(newUser[r.actor].subscriptions, r.id)])
             [] r.pc = "saveUser" ->
                  IF r.actor \in DOMAIN newUser
                  THEN /\ newUser' = [newUser EXCEPT ![r.actor].subscriptions = r.arr]
                       /\ UNCHANGED <<Channel, Video, Comment>>
                       /\ Goto(i, Finish(r, 200))
                  ELSE SaveMissing(i, [r EXCEPT !.status = 200], "done")

\* One store operation of unsubscribeFromChannel (channelController.js 137-155).
UnsubscribeStep(i) ==
    LET r == reqs[i]
    IN  /\ r.op = "unsubscribeFromChannel"
        /\ InFlight(i)
        /\ UNCHANGED <<nextId, response, http, channelSlice, thunks, dispatched>>
        /\ CASE r.pc = "find" ->
                  /\ KeepStore
                  /\ IF r.id \notin DOMAIN Channel
                     THEN Goto(i, Finish(r, 404))
                     ELSE IF ~Includes(Channel[r.id].subscribers, r.actor)
                     THEN Goto(i, Finish(r, 400))
                     ELSE Goto(i, [r EXCEPT !.pc = "saveChannel",
                                    !.arr = FilterOut(Channel[r.id].subscribers, r.actor)])
             [] r.pc = "saveChannel" ->
                  IF r.id \in DOMAIN Channel
                  THEN /\ Channel' = [Channel EXCEPT ![r.id].subscribers = r.arr]
                       /\ UNCHANGED <<newUser, Video, Comment>>
                       /\ Goto(i, [r EXCEPT !.pc = "findUser"])
                  ELSE SaveMissing(i, r, "findUser")
             [] r.pc = "findUser" ->
                  /\ KeepStore
                  /\ IF r.actor \notin DOMAIN newUser
                     THEN Goto(i, Finish(r, 500))
                     ELSE Goto(i, [r EXCEPT !.pc = "saveUser",
                                    !.arr = FilterOut(newUser[r.actor].subscriptions, r.id)])
             [] r.pc = "saveUser" ->
                  IF r.actor \in DOMAIN newUser
                  THEN /\ newUser' = [newUser EXCEPT ![r.actor].subscriptions = r.arr]
                       /\ UNCHANGED <<Channel, Video, Comment>>
                       /\ Goto(i, Finish(r, 200))
                  ELSE SaveMissing(i, [r EXCEPT !.status = 200], "done")

\* One store operation of createChannel (channelController.js 17-39).
CreateChannelStep(i) ==
    LET r == reqs[i]
    IN  /\ r.op = "createChannel"
        /\ InFlight(i)
        /\ UNCHANGED <<response, http, channelSlice, thunks, dispatched>>
        /\ CASE r.pc = "find" ->
                  \* newUser.findById and the hasChannel check
                  /\ KeepStore
                  /\ UNCHANGED nextId
                  /\ IF r.actor \notin DOMAIN newUser
                     THEN Goto(i, Finish(r, 404))
                     ELSE IF newUser[r.actor].hasChannel
                     THEN Goto(i, Finish(r, 400))
                     ELSE Goto(i, [r EXCEPT !.pc = "create"])
             [] r.pc = "create" ->
                  \* Channel.create({..., owner: userId})
                  /\ nextId.channel <= MaxChannels
                  /\ Channel' = Channel @@
                        (nextId.channel :> [owner |-> r.actor, subscribers |-> << >>])
                  /\ nextId' = [nextId EXCEPT !.channel = @ + 1]
                  /\ UNCHANGED <<newUser, Video, Comment>>
                  /\ Goto(i, [r EXCEPT !.pc = "saveUser", !.channelId = nextId.channel])
             [] r.pc = "saveUser" ->
                  \* user.hasChannel = true; user.channelId = channel._id; save
                  /\ UNCHANGED nextId
                  /\ IF r.actor \in DOMAIN newUser
                     THEN /\ newUser' = [newUser EXCEPT ![r.actor].hasChannel = TRUE,
                                                        ![r.actor].channelId = r.channelId]
                          /\ UNCHANGED <<Channel, Video, Comment>>
                          /\ Goto(i, Finish(r, 201))
                     ELSE SaveMissing(i, [r EXCEPT !.status = 201], "done")

\* One store operation of deleteChannel (channelController.js 169-200); the
\* load of the channel and the populate of its videos are one read.
DeleteChannelStep(i) ==
    LET r == reqs[i]
        db == Store
    IN  /\ r.op = "deleteChannel"
        /\ InFlight(i)
        /\ UNCHANGED <<nextId, response, http, channelSlice, thunks, dispatched>>
        /\ CASE r.pc = "find" ->
                  /\ KeepStore
                  /\ IF r.id \notin DOMAIN Channel
                     THEN Goto(i, Finish(r, 404))
                     ELSE IF Channel[r.id].owner # r.actor
                     THEN Goto(i, Finish(r, 403))
                     ELSE Goto(i, [r EXCEPT !.pc = "deleteVideos",
                                    !.videoIds = channelVideos(db, r.id)])
             [] r.pc = "deleteVideos" ->
                  /\ SetStore([db EXCEPT !.Video = Without(@, r.videoIds)])
                  /\ Goto(i, [r EXCEPT !.pc = "pullSubscriptions"])
             [] r.pc = "pullSubscriptions" ->
                  /\ SetStore(pullSubscriptions(db, r.id))
                  /\ Goto(i, [r EXCEPT !.pc = "pullLikes"])
             [] r.pc = "pullLikes" ->
                  /\ SetStore(pullLikes(db, r.videoIds))
                  /\ Goto(i, [r EXCEPT !.pc = "deleteChannel"])
             [] r.pc = "deleteChannel" ->
                  \* channel.deleteOne()
                  /\ SetStore([db EXCEPT !.Channel = Without(@, {r.id})])
                  /\ Goto(i, [r EXCEPT !.pc = "findUser"])
             [] r.pc = "findUser" ->
                  /\ KeepStore
                  /\ IF r.actor \in DOMAIN newUser
                     THEN Goto(i, [r EXCEPT !.pc = "saveUser"])
                     ELSE Goto(i, Finish(r, 200))
             [] r.pc = "saveUser" ->
                  IF r.actor \in DOMAIN newUser
                  THEN /\ newUser' = [newUser EXCEPT ![r.actor].hasChannel = FALSE,
                                                     ![r.actor].channelId = null]
                       /\ UNCHANGED <<Channel, Video, Comment>>
                       /\ Goto(i, Finish(r, 200))
                  ELSE SaveMissing(i, [r EXCEPT !.status = 200], "done")

StartSubscribe ==
    \E i \in Slots, u \in UserIds, c \in ChannelIds : Start(i, "subscribeToChannel", u, c)

StartUnsubscribe ==
    \E i \in Slots, u \in UserIds, c \in ChannelIds : Start(i, "unsubscribeFromChannel", u, c)

StartCreateChannel ==
    \E i \in Slots, u \in UserIds : Start(i, "createChannel", u, null)

StartDeleteChannel ==
    \E i \in Slots, u \in UserIds, c \in ChannelIds : Start(i, "deleteChannel", u, c)

StartDeleteAccount ==
    \E i \in Slots, id \in UserIds : Start(i, "deleteAccount", null, id)

StepSubscribe == \E i \in Slots : SubscribeStep(i)

StepUnsubscribe == \E i \in Slots : UnsubscribeStep(i)

StepCreateChannel == \E i \in Slots : CreateChannelStep(i)

StepDeleteChannel == \E i \in Slots : DeleteChannelStep(i)

\* Subscribe and unsubscribe requests interleaved at their store operations.
NextSubscribeRace ==
    \/ StartSubscribe
    \/ StartUnsubscribe
    \/ StepSubscribe
    \/ StepUnsubscribe

SpecSubscribeRace == InitRace /\ [][NextSubscribeRace]_vars

\* createChannel requests interleaved at their store operations.
NextCreateRace ==
    \/ StartCreateChannel
    \/ StepCreateChannel

SpecCreateRace == InitRace /\ [][NextCreateRace]_vars

\* deleteChannel interleaved with subscribeToChannel.
NextDeleteSubscribe ==
    \/ StartDeleteChannel
    \/ StartSubscribe
    \/ StepDeleteChannel
    \/ StepSubscribe

SpecDeleteSubscribe == InitRace /\ [][NextDeleteSubscribe]_vars

\* deleteAccount interleaved with subscribeToChannel.
NextAccountSubscribe ==
    \/ StartDeleteAccount
    \/ StartSubscribe
    \/ StepDeleteAccount
    \/ StepSubscribe

SpecAccountSubscribe == InitRace /\ [][NextAccountSubscribe]_vars

\* No deleteAccount is between its first read and its response.
NoAccountDeletion == \A i \in Slots : reqs[i].op = "deleteAccount" => ~InFlight(i)

\* A video upload served while other handlers are suspended at a store call.
PublishDuring ==
    \E userId \in UserIds :
        /\ NoAccountDeletion
        /\ nextId.video <= MaxVideos
        /\ LET r == publishAVideo(Store, userId, nextId.video)
           IN  /\ r.res.status = 201
               /\ SetStore(r.db)
        /\ nextId' = [nextId EXCEPT !.video = @ + 1]
        /\ UNCHANGED <<response, reqs, http, channelSlice, thunks, dispatched>>

\* A like served while other handlers are suspended at a store call.
LikeDuring ==
    \E userId \in UserIds, videoId \in VideoIds :
        /\ NoAccountDeletion
        /\ LET r == likeVideo(Store, userId, videoId)
           IN  /\ r.res.status = 200
               /\ SetStore(r.db)
        /\ UNCHANGED <<nextId, response, reqs, http, channelSlice, thunks, dispatched>>

StartDeleteChannelAlone ==
    \E i \in Slots, u \in UserIds, c \in ChannelIds :
        Quiet /\ Start(i, "deleteChannel", u, c)

\* deleteChannel interleaved with uploads and likes, and deleteAccount run on
\* the store this leaves.
NextOrphanVideo ==
    \/ StartDeleteChannelAlone
    \/ StepDeleteChannel
    \/ PublishDuring
    \/ LikeDuring
    \/ StartDeleteAccountAlone
    \/ StepDeleteAccount

SpecOrphanVideo == InitRace /\ [][NextOrphanVideo]_vars

\* ================================================================ properties
StoreUnchanged == UNCHANGED <<newUser, Channel, Video, Comment>>

\* u.subscriptions contains c.id iff c.subscribers contains u.id (invariant 3).
Symmetric ==
    \A u \in DOMAIN newUser, c \in DOMAIN Channel :
        Includes(Channel[c].subscribers, u) <=> Includes(newUser[u].subscriptions, c)

\* No array of the subscription relation holds an entry twice.
NoDup(arr) == \A i, j \in DOMAIN arr : arr[i] = arr[j] => i = j

NoDuplicates ==
    /\ \A c \in DOMAIN Channel : NoDup(Channel[c].subscribers)
    /\ \A u \in DOMAIN newUser : NoDup(newUser[u].subscriptions)

\* res is arr with its one entry x taken out and every other entry kept in place.
RemovedExactly(arr, x, res) ==
    \E i \in DOMAIN arr :
        /\ arr[i] = x
        /\ res = SubSeq(arr, 1, i - 1) \o SubSeq(arr, i + 1, Len(arr))
        /\ ~Includes(res, x)

\* C1: with requests run one at a time, after every completed subscribeToChannel
\* or unsubscribeFromChannel (successful or rejected), for every user U and
\* channel C: U.id is in C.subscribers iff C.id is in U.subscriptions.
C1_SubscriptionSymmetric ==
    response.op \in {"subscribeToChannel", "unsubscribeFromChannel"} => Symmetric

\* A user has just subscribed, or just unsubscribed while another subscription
\* of the relation stays in place.
C1_Witness ==
    /\ response.op = "unsubscribeFromChannel"
    /\ response.status = 200
    /\ response.actor \in DOMAIN newUser
    /\ \E u \in DOMAIN newUser, c \in DOMAIN Channel :
          /\ Includes(Channel[c].subscribers, u)
          /\ Includes(newUser[u].subscriptions, c)

\* C7: a subscribeToChannel by a user already in the channel's subscribers fails
\* with the Conflict error (ApiError 400, "Already subscribed to this channel")
\* and changes nothing; and in every state reached by requests run one at a time
\* no subscribers array holds a user twice and no subscriptions array holds a
\* channel twice.
C7_DuplicateSubscribeRejected ==
    /\ []NoDuplicates
    /\ [][(/\ response'.op = "subscribeToChannel"
           /\ response'.id \in DOMAIN Channel
           /\ Includes(Channel[response'.id].subscribers, response'.actor))
          => (/\ response'.status = 400
              /\ response'.message = "Already subscribed to this channel"
              /\ StoreUnchanged)]_vars

\* The second of two subscribes has just been rejected; the user is in the
\* channel's subscribers once.
C7_Witness ==
    /\ response.op = "subscribeToChannel"
    /\ response.status = 400
    /\ response.id \in DOMAIN Channel
    /\ Includes(Channel[response.id].subscribers, response.actor)
    /\ Len(Channel[response.id].subscribers) = 2

\* C8: unsubscribeFromChannel by a user who is not in the channel's subscribers
\* fails with the Conflict error (ApiError 400, "Not subscribed to this channel")
\* and changes nothing; otherwise it takes exactly that user out of the
\* channel's subscribers and exactly that channel out of the user's
\* subscriptions, and every other entry and every other document stays.
C8_UnsubscribeFrame ==
    [][(response'.op = "unsubscribeFromChannel" /\ response'.id \in DOMAIN Channel) =>
        LET u == response'.actor
            c == response'.id
        IN  IF ~Includes(Channel[c].subscribers, u)
            THEN /\ response'.status = 400
                 /\ response'.message = "Not subscribed to this channel"
                 /\ StoreUnchanged
            ELSE /\ DOMAIN Channel' = DOMAIN Channel
                 /\ \A k \in DOMAIN Channel \ {c} : Channel'[k] = Channel[k]
                 /\ Channel'[c].owner = Channel[c].owner
                 /\ RemovedExactly(Channel[c].subscribers, u, Channel'[c].subscribers)
                 /\ DOMAIN newUser' = DOMAIN newUser
                 /\ \A k \in DOMAIN newUser \ {u} : newUser'[k] = newUser[k]
                 /\ u \in DOMAIN newUser =>
                      /\ RemovedExactly(newUser[u].subscriptions, c,
                                        newUser'[u].subscriptions)
                      /\ newUser'[u] =
                           [newUser[u] EXCEPT !.subscriptions = newUser'[u].subscriptions]
                 /\ UNCHANGED <<Video, Comment>>]_vars

\* A user has just unsubscribed from a channel that keeps another subscriber,
\* and still follows another channel.
C8_Witness ==
    /\ response.op = "unsubscribeFromChannel"
    /\ response.status = 200
    /\ response.id \in DOMAIN Channel
    /\ response.actor \in DOMAIN newUser
    /\ Len(Channel[response.id].subscribers) = 1
    /\ Len(newUser[response.actor].subscriptions) = 1

\* C2: after a successful deleteChannel(C) by C's owner, C no longer exists, no
\* Video has channelId = C, no user's subscriptions contains C, and no user's
\* likes contains the id of a video that belonged to C.
C2_ChannelCascadeComplete ==
    [][(response'.op = "deleteChannel" /\ response'.status = 200) =>
        LET c == response'.id
            belonged == {v \in DOMAIN Video : Video[v].channelId = c}
        IN  /\ Channel[c].owner = response'.actor
            /\ c \notin DOMAIN Channel'
            /\ \A v \in DOMAIN Video' : Video'[v].channelId # c
            /\ \A u \in DOMAIN newUser' :
                  /\ ~Includes(newUser'[u].subscriptions, c)
                  /\ \A v \in belonged : ~Includes(newUser'[u].likes, v)]_vars

\* The owner has just deleted the only channel ever created; its video is gone
\* while another user's comment on that video shows the video was there, and
\* that user is left with no subscription and no like.
C2_Witness ==
    /\ response.op = "deleteChannel"
    /\ response.status = 200
    /\ nextId.channel = 2
    /\ nextId.video = 2
    /\ Video = << >>
    /\ \E k \in DOMAIN Comment, z \in DOMAIN newUser :
          /\ Comment[k].userId = z
          /\ z # response.actor
          /\ newUser[z].subscriptions = << >>
          /\ newUser[z].likes = << >>

\* C3: after a successful deleteAccount(U), no surviving Channel, Video or
\* Comment references U's id as owner, in subscribers, in likes or as userId,
\* and U is no longer a user.
C3_AccountCascadeComplete ==
    (response.op = "deleteAccount" /\ response.status = 200) =>
        LET u == response.id
        IN  /\ u \notin DOMAIN newUser
            /\ \A c \in DOMAIN Channel :
                  Channel[c].owner # u /\ ~Includes(Channel[c].subscribers, u)
            /\ \A v \in DOMAIN Video :
                  Video[v].owner # u /\ ~Includes(Video[v].likes, u)
            /\ \A k \in DOMAIN Comment : Comment[k].userId # u

\* A user who had commented on another user's video has just been deleted: the
\* comment is gone, the other user's channel and video survive.
C3_Witness ==
    /\ response.op = "deleteAccount"
    /\ response.status = 200
    /\ nextId.comment = 2
    /\ Comment = << >>
    /\ Video # << >>
    /\ Channel # << >>

\* C4: after a successful deleteAccount of a user X who owns channel Y, channel
\* Y and every video with channelId = Y are gone, no surviving user's likes
\* contains the id of one of those videos, and no surviving user's
\* subscriptions contains Y.
C4_OwnerDeletionCascade ==
    [][(response'.op = "deleteAccount" /\ response'.status = 200) =>
        \A y \in DOMAIN Channel : Channel[y].owner = response'.id =>
            LET belonged == {v \in DOMAIN Video : Video[v].channelId = y}
            IN  /\ y \notin DOMAIN Channel'
                /\ belonged \cap DOMAIN Video' = {}
                /\ \A v \in DOMAIN Video' : Video'[v].channelId # y
                /\ \A u \in DOMAIN newUser' :
                      /\ ~Includes(newUser'[u].subscriptions, y)
                      /\ \A v \in belonged : ~Includes(newUser'[u].likes, v)]_vars

\* An account has just been deleted; the one channel and the one video ever
\* created are gone, and the surviving user, whose comment on the video is
\* still there, holds no like and no subscription.
C4_Witness ==
    /\ response.op = "deleteAccount"
    /\ response.status = 200
    /\ nextId.channel = 2
    /\ nextId.video = 2
    /\ Channel = << >>
    /\ Video = << >>
    /\ \E k \in DOMAIN Comment, z \in DOMAIN newUser :
          /\ Comment[k].userId = z
          /\ newUser[z].subscriptions = << >>
          /\ newUser[z].likes = << >>

\* C5: deleteChannel invoked by a user who is not the channel's owner fails with
\* Forbidden (403) and every Channel, Video, User and Comment document is the
\* same after the request as before it.
C5_NonOwnerForbidden ==
    [][(/\ response'.op = "deleteChannel"
        /\ response'.id \in DOMAIN Channel
        /\ Channel[response'.id].owner # response'.actor)
       => (response'.status = 403 /\ StoreUnchanged)]_vars

\* A subscriber of a channel that holds a video has just been refused.
C5_Witness ==
    /\ response.op = "deleteChannel"
    /\ response.status = 403
    /\ response.id \in DOMAIN Channel
    /\ Includes(Channel[response.id].subscribers, response.actor)
    /\ \E v \in DOMAIN Video : Video[v].channelId = response.id

\* C6: deleteAccount, and deleteChannel, called with the id of an entity that
\* does not exist fails with NotFound (404) and leaves the store unchanged.
C6_AbsentYieldsNotFound ==
    [][/\ (response'.op = "deleteAccount" /\ response'.id \notin DOMAIN newUser)
          => (response'.status = 404 /\ StoreUnchanged)
       /\ (response'.op = "deleteChannel" /\ response'.id \notin DOMAIN Channel)
          => (response'.status = 404 /\ StoreUnchanged)]_vars

\* The second delete of an account that the first delete removed.
C6_Witness ==
    /\ response.op = "deleteAccount"
    /\ response.status = 404
    /\ response.id < nextId.user
    /\ newUser # << >>

\* C9: in every state reached by requests run one at a time, for every existing
\* user U: U.hasChannel iff U.channelId is non-null iff a Channel with owner = U
\* exists, and at most one Channel has owner = U; after a successful
\* deleteChannel the owner has hasChannel = false and channelId = null.
C9_OneChannelPerUser ==
    /\ \A u \in DOMAIN newUser :
          LET owned == {c \in DOMAIN Channel : Channel[c].owner = u}
          IN  /\ newUser[u].hasChannel <=> newUser[u].channelId # null
              /\ newUser[u].channelId # null <=> owned # {}
              /\ Cardinality(owned) <= 1
    /\ (response.op = "deleteChannel" /\ response.status = 200
            /\ response.actor \in DOMAIN newUser)
          => /\ ~newUser[response.actor].hasChannel
             /\ newUser[response.actor].channelId = null

\* The owner has just deleted the channel while another user keeps one.
C9_Witness ==
    /\ response.op = "deleteChannel"
    /\ response.status = 200
    /\ response.actor \in DOMAIN newUser
    /\ \E u \in DOMAIN newUser : u # response.actor /\ newUser[u].hasChannel

\* C10: once a Video has been deleted by deleteChannel or by deleteAccount, no
\* surviving Comment references that video's id.
C10_NoOrphanedComment ==
    (response.op \in {"deleteChannel", "deleteAccount"} /\ response.status = 200) =>
        \A k \in DOMAIN Comment : Comment[k].videoId \in DOMAIN Video

\* C15: from the same store, the channel cascade inside deleteAccount (for the
\* user's channelId) and the standalone deleteChannel by the owner leave the
\* same Channel collection, the same Video collection and the same likes and
\* subscriptions on every other user.
C15_CascadesAgree ==
    \A u \in DOMAIN newUser :
        newUser[u].channelId # null =>
            LET y == newUser[u].channelId
                a == accountChannelCascade(Store, y)
                b == deleteChannel(Store, u, y).db
            IN  /\ a.Channel = b.Channel
                /\ a.Video = b.Video
                /\ \A w \in DOMAIN newUser \ {u} :
                      /\ a.newUser[w].likes = b.newUser[w].likes
                      /\ a.newUser[w].subscriptions = b.newUser[w].subscriptions

\* A user owns a channel with a video; another user likes the video and follows
\* the channel, so both cascades have likes and subscriptions to pull.
C15_Witness ==
    \E u, w \in DOMAIN newUser, v \in DOMAIN Video :
        /\ u # w
        /\ newUser[u].channelId # null
        /\ Video[v].channelId = newUser[u].channelId
        /\ Includes(newUser[w].likes, v)
        /\ Includes(newUser[w].subscriptions, newUser[u].channelId)

\* No two users share a name or an email.
UniqueNameEmail ==
    \A u, w \in DOMAIN newUser :
        u # w => newUser[u].name # newUser[w].name /\ newUser[u].email # newUser[w].email

\* C20: registerUser fails with the Validation error (400) when name, email or
\* password is missing and with Conflict (409) when an existing user has the
\* same name or the same email, and creates no user in either case; after any
\* sequence of registrations run one at a time no two users share a name or an
\* email.
C20_RegisterUnique ==
    /\ []UniqueNameEmail
    /\ [][\A name \in Fields, email \in Fields, password \in 0..1 :
            (/\ nextId.user <= MaxUsers
             /\ Complete(registerUser(Store, name, email, password, nextId.user)))
            => IF name = 0 \/ email = 0 \/ password = 0
               THEN response'.status = 400 /\ newUser' = newUser
               ELSE IF \E u \in DOMAIN newUser :
                          newUser[u].name = name \/ newUser[u].email = email
               THEN response'.status = 409 /\ newUser' = newUser
               ELSE /\ response'.status = 201
                    /\ DOMAIN newUser' = DOMAIN newUser \cup {nextId.user}
                    /\ newUser'[nextId.user].name = name
                    /\ newUser'[nextId.user].email = email]_vars

\* A registration has just been refused with 409 while one user exists: the new
\* name or the new email is that user's.
C20_Witness ==
    /\ response.op = "registerUser"
    /\ response.status = 409
    /\ Cardinality(DOMAIN newUser) = 1
    /\ nextId.user <= MaxUsers

\* C11: during deleteAccount, in every state between two consecutive store
\* operations, no surviving user's likes or subscriptions contains the id of a
\* video or channel that the flow has already deleted.
C11_NoTransientOrphan ==
    \A i \in Slots :
        (reqs[i].op = "deleteAccount" /\ InFlight(i)) =>
            \A u \in DOMAIN newUser \ {reqs[i].id} :
                /\ \A v \in reqs[i].delVideos : ~Includes(newUser[u].likes, v)
                /\ \A c \in reqs[i].delChannels : ~Includes(newUser[u].subscriptions, c)

\* C12: if a store operation of deleteAccount fails after the user was loaded,
\* the failing step changes nothing (what the earlier steps did stays), the
\* request executes no later step, and the User document still exists.
C12_FailureKeepsUser ==
    [][\A i \in Slots :
          /\ (reqs[i].pc # "failed" /\ reqs'[i].pc = "failed")
                => (StoreUnchanged /\ reqs[i].id \in DOMAIN newUser')
          /\ reqs[i].pc = "failed" => reqs'[i] = reqs[i]]_vars

\* A deleteAccount has failed after it had deleted the user's channel and the
\* channel's video: both stay deleted and the user still exists.
C12_Witness ==
    \E i \in Slots :
        /\ reqs[i].op = "deleteAccount"
        /\ reqs[i].pc = "failed"
        /\ reqs[i].delChannels # {}
        /\ reqs[i].delVideos # {}
        /\ reqs[i].delChannels \cap DOMAIN Channel = {}
        /\ reqs[i].id \in DOMAIN newUser

\* C16: with subscribe and unsubscribe requests of different users on the same
\* channel interleaved at their store operations, in every state where no request is in flight the subscription
\* relation is symmetric and no array holds a duplicate entry.
C16_RaceKeepsSymmetry ==
    (/\ Quiet
     /\ \A i, j \in Slots :
           (i # j /\ reqs[i].op # "none" /\ reqs[j].op # "none")
              => (reqs[i].actor # reqs[j].actor /\ reqs[i].id = reqs[j].id))
    => (Symmetric /\ NoDuplicates)

\* C17: with two createChannel requests of the same user interleaved at their
\* store operations, once both have finished at most one Channel has that user
\* as owner and the user's channelId refers to it.
C17_RaceOneChannel ==
    \A i, j \in Slots :
        (/\ i # j
         /\ reqs[i].op = "createChannel" /\ reqs[j].op = "createChannel"
         /\ reqs[i].actor = reqs[j].actor
         /\ reqs[i].pc = "done" /\ reqs[j].pc = "done"
         /\ reqs[i].actor \in DOMAIN newUser)
        => LET owned == {c \in DOMAIN Channel : Channel[c].owner = reqs[i].actor}
           IN  /\ Cardinality(owned) <= 1
               /\ owned # {} => newUser[reqs[i].actor].channelId \in owned

\* C18: with a deleteChannel(C) by the owner interleaved with a
\* subscribeToChannel(C) by another user U, once both have finished and C has
\* been deleted, U.subscriptions does not contain C.
C18_RaceNoStaleSubscription ==
    \A i, j \in Slots :
        (/\ reqs[i].op = "deleteChannel" /\ reqs[i].pc = "done" /\ reqs[i].status = 200
         /\ reqs[j].op = "subscribeToChannel" /\ reqs[j].pc = "done"
         /\ reqs[j].id = reqs[i].id
         /\ reqs[j].actor # reqs[i].actor
         /\ reqs[i].id \notin DOMAIN Channel
         /\ reqs[j].actor \in DOMAIN newUser)
        => ~Includes(newUser[reqs[j].actor].subscriptions, reqs[i].id)

\* C19: with a deleteAccount(U) interleaved with a subscribeToChannel by U to
\* another user's channel C that the subscribe completes (200), once both have
\* finished and U has been deleted, C.subscribers does not contain U's id.
C19_RaceNoStaleSubscriber ==
    \A i, j \in Slots :
        (/\ reqs[i].op = "deleteAccount" /\ reqs[i].pc = "done" /\ reqs[i].status = 200
         /\ reqs[j].op = "subscribeToChannel" /\ reqs[j].pc = "done"
         /\ reqs[j].status = 200
         /\ reqs[j].actor = reqs[i].id
         /\ reqs[i].id \notin DOMAIN newUser)
        => \A c \in DOMAIN Channel :
              Channel[c].owner # reqs[i].id => ~Includes(Channel[c].subscribers, reqs[i].id)

\* C14: after a successful deleteAccount(U) on a store where some video has
\* owner U but a channelId that is not U's channel (or U has no channel), that
\* video is deleted and no surviving user's likes contains its id.
C14_ForeignVideoCleaned ==
    \A i \in Slots :
        (/\ reqs[i].op = "deleteAccount"
         /\ reqs[i].pc = "done" /\ reqs[i].status = 200
         /\ reqs[i].foreign # {})
        => /\ reqs[i].foreign \cap DOMAIN Video = {}
           /\ \A u \in DOMAIN newUser : \A v \in reqs[i].foreign :
                 ~Includes(newUser[u].likes, v)

\* C13: every mutating video route (publish, delete, incrementView, like,
\* removelike, update) calls its handler only after verifyJWT has accepted the
\* request, and the three read routes (allVideo, videoData/:id,
\* allUserVideo/:owner) are served without passing through verifyJWT.
C13_MutatingBehindJWT ==
    \A k \in 1..Len(http.log) :
        /\ http.log[k] \in MutatingHandlers
              => (http.auth = "accepted" /\ \E j \in 1..(k - 1) : http.log[j] = "verifyJWT")
        /\ http.log[k] \in ReadHandlers
              => (http.auth = "none" /\ \A j \in 1..Len(http.log) : http.log[j] # "verifyJWT")

\* A read route has been served to a request that never met verifyJWT and the
\* next request has reached the publish controller.
C13_Witness ==
    /\ http.served.handler \in ReadHandlers
    /\ http.served.auth = "none"
    /\ http.status = 200
    /\ http.log = <<"verifyJWT", "videoUpload", "publishAVideo">>

\* No thunk of the channel slice is between its pending action and its
\* fulfilled or rejected action.
NoThunkInFlight == \A i \in RequestIds : thunks[i].phase # "pending"

\* C21: for any interleaving of dispatched channel thunks in which every
\* pending action has been followed by its fulfilled or rejected action,
\* loading is false: it is false in every state where no thunk is in flight.
C21_IdleNotLoading == NoThunkInFlight => ~channelSlice.loading

\* Two thunks were in flight together, a thunk with a pending case settled
\* first and subscribe, which has none, settled last.
C21_Witness ==
    /\ NoThunkInFlight
    /\ thunks[1].thunk = "channel/createChannel"
    /\ thunks[2].thunk = "channel/subscribe"
    /\ dispatched.requestId = 2
    /\ dispatched.phase = "fulfilled"

\* C22: every rejected thunk action sets error to the rejection payload and
\* loading to false and leaves channel and successMessage unchanged; channel
\* changes only on a fulfilled create, get or update (to the payload) or a
\* fulfilled delete (to null).
C22_RejectedFrame ==
    [][/\ dispatched'.phase = "rejected" =>
            /\ channelSlice'.error = dispatched'.payload
            /\ ~channelSlice'.loading
            /\ channelSlice'.channel = channelSlice.channel
            /\ channelSlice'.successMessage = channelSlice.successMessage
       /\ channelSlice'.channel # channelSlice.channel =>
            /\ dispatched'.phase = "fulfilled"
            /\ \/ /\ dispatched'.type \in {"channel/createChannel", "channel/data",
                                           "channel/updateChannel"}
                  /\ channelSlice'.channel = dispatched'.payload
               \/ /\ dispatched'.type = "channel/delete"
                  /\ channelSlice'.channel = null]_vars

\* A thunk was rejected while the slice held a channel and a success message,
\* and both are still there next to the error.
C22_Witness ==
    /\ dispatched.phase = "rejected"
    /\ dispatched.payload # null
    /\ channelSlice.error = dispatched.payload
    /\ channelSlice.channel # null
    /\ channelSlice.successMessage = "Channel created successfully!"

====
